---- MODULE Spec2Model ----
(***************************************************************************)
(* Model of corn.py: the NIR-spectrum regression pipeline.                 *)
(*                                                                         *)
(*   SpecTrain       train_model: the epoch loop, the plateau scheduler,   *)
(*                   the best-loss tracker, the checkpoint file, the load  *)
(*   SpecData        load_and_preprocess_data run on two tables that       *)
(*                   differ only in samples of the test partition          *)
(*   SpecSplit       load_and_preprocess_data run twice on one table       *)
(*   SpecMain        main, statement by statement                          *)
(*   SpecImportance  feature_importance_analysis                           *)
(*                                                                         *)
(* Floats are modelled exactly: a finite loss is a natural number (a loss  *)
(* in fixed units), +infinity is Inf, NaN is NaN, and every comparison     *)
(* goes through Lt, which is false as soon as one side is NaN. Quotients   *)
(* by a standard deviation are kept as num / sqrt(den2), 0 / sqrt(0) being *)
(* NaN. Model parameters are versions: which run wrote them, after which   *)
(* epoch.                                                                  *)
(***************************************************************************)
EXTENDS Integers, Sequences, FiniteSets, TLC

VARIABLES
    \* ---- train_model ----
    tpc,             \* "running" | "early_stopped" | "completed" | "returned" | "raised"
    epochs,          \* the epochs argument of train_model
    epoch,           \* number of epochs whose body has run
    history,         \* train_history['loss']
    best_loss,       \* best_loss
    counter,         \* counter (stall counter of the early stopping)
    params,          \* the live model's state_dict, as a version
    ckptFile,        \* the file best_model.pth, as the version it holds
    sched_best,      \* scheduler.best
    num_bad_epochs,  \* scheduler.num_bad_epochs
    lr,              \* optimizer.param_groups[0]['lr'], a rational
    \* ---- load_and_preprocess_data, two runs side by side ----
    dpc,             \* "idle" | "ready": the runs can be made
    table,           \* the input table of the first run
    table2,          \* the input table of the second run
    rng42,           \* the permutation RandomState(42) draws for this table size
    apply_snv,       \* the apply_snv argument
    out,             \* what the first run returned (NotRun before)
    out2,            \* what the second run returned (NotRun before)
    \* ---- main ----
    mpc,             \* the statement of main that runs next, "exited" at the end
    results_dir,     \* whether the results directory exists
    model_built,     \* whether EnhancedCNNModel has been constructed
    stepped,         \* whether optimizer.step() has run
    written,         \* the files this run has written
    finalFile,       \* the file nir_spectroscopy_model.pth, as the version it holds
    raised_in,       \* the call of main that raised, "none" if none did
    exit_code,       \* the exit status of the process, once exited
    \* ---- feature_importance_analysis ----
    fpc,             \* "idle" | "ready" | "done"
    sensitivity,     \* per channel, the norm of the output change the model shows
    feature_importance,  \* the returned importance vector
    top_indices      \* np.argsort(feature_importance)[-10:]

\* the locals of train_model and the state of the scheduler and optimizer
trainLocals == <<tpc, epochs, epoch, history, best_loss, counter,
                 sched_best, num_bad_epochs, lr>>

\* the model and the checkpoint file
modelVars == <<params, ckptFile>>

dataRest == <<dpc, table2, rng42, apply_snv, out, out2>>

mainVars == <<mpc, results_dir, model_built, stepped, written, finalFile,
              raised_in, exit_code>>

fiVars == <<fpc, sensitivity, feature_importance, top_indices>>

vars == <<trainLocals, modelVars, table, dataRest, mainVars, fiVars>>

trainLocalsButPc == <<epochs, epoch, history, best_loss, counter,
                      sched_best, num_bad_epochs, lr>>

----------------------------------------------------------------------------
(* Bounds of the model *)

\* the largest epoch budget tried
MaxEpochs == 23
\* the largest number of epochs whose loss differs from the epoch before
MaxChanges == 2
\* the largest table of the split runs
MaxN == 6
\* the largest table of the preprocessing runs
MaxSamples == 3
\* the number of wavelength channels of a spectrum in the preprocessing runs
Channels == 2
\* the largest number of wavelength columns given to the importance analysis
MaxWavelengths == 11
\* the latest epoch main's training is let set its last best loss at
MaxBestEpoch == 3

----------------------------------------------------------------------------
(* Floats *)

\* float('inf'): above every finite loss
Inf == 1000000
\* a NaN (a diverged epoch's loss, the quotient 0/0)
NaN == 2000000

\* a < b on floats: false when either side is NaN
Lt(a, b) == a # NaN /\ b # NaN /\ a < b

\* the mean losses an epoch can produce
Losses == {10000, 19999, 20000, NaN}

\* number of positions of h whose value differs from the one before
Changes(h) == Cardinality({i \in 1..(Len(h) - 1) : h[i] # h[i + 1]})

----------------------------------------------------------------------------
(* Model parameters and checkpoints, as versions *)

\* the state_dict after e epochs of optimizer steps of this run
ThisRun(e) == [writer |-> "this", epoch |-> e]
\* a best_model.pth left in the working directory by an earlier run
Stale == [writer |-> "earlier", epoch |-> 0]
\* no file
Absent == [writer |-> "none", epoch |-> 0]

----------------------------------------------------------------------------
(* train_model *)

\* patience = 20
patience == 20

\* optim.Adam(lr=0.0005)
InitialLR == [num |-> 5, den |-> 10000]

\* ReduceLROnPlateau(patience=10)
sched_patience == 10

\* ReduceLROnPlateau.is_better, mode='min', threshold_mode='rel', threshold=1e-4:
\* a < best * (1 - 1e-4)
IsBetter(a, best) ==
    /\ a # NaN
    /\ IF best = Inf THEN a # Inf
       ELSE /\ a # Inf
            /\ 10000 * a < 9999 * best

\* ReduceLROnPlateau._reduce_lr, factor=0.5, min_lr=0, eps=1e-8:
\* new_lr = max(old_lr * 0.5, 0); applied when old_lr - new_lr > eps
ReduceLR(old) ==
    IF old.num * 100000000 > 2 * old.den
    THEN [num |-> old.num, den |-> 2 * old.den]
    ELSE old

\* faulty variant: the reduction one epoch early: num_bad_epochs >= patience
SchedShouldReduce_Early(bad) == bad >= sched_patience

\* num_bad_epochs > patience
SchedShouldReduce(bad) == bad > sched_patience

\* scheduler.step(epoch_loss): <<best, num_bad_epochs, lr>> after the step
SchedulerStep(loss, best, bad, rate) ==
    LET better == IsBetter(loss, best)
        best1  == IF better THEN loss ELSE best
        bad1   == IF better THEN 0 ELSE bad + 1
    IN  IF SchedShouldReduce(bad1)
        THEN <<best1, 0, ReduceLR(rate)>>
        ELSE <<best1, bad1, rate>>

\* epoch_loss < best_loss
Improved(loss, best) == Lt(loss, best)

\* faulty variant: the break one epoch late: counter > patience
ShouldStop_Late(c) == c > patience

\* counter >= patience
ShouldStop(c) == c >= patience

\* train_model is called: the locals before the loop
TrainInit ==
    /\ tpc = "running"
    /\ epochs \in {1, 2, MaxEpochs}
    /\ epoch = 0
    /\ history = <<>>
    /\ best_loss = Inf
    /\ counter = 0
    /\ params = ThisRun(0)
    /\ ckptFile \in {Absent, Stale}
    /\ sched_best = Inf
    /\ num_bad_epochs = 0
    /\ lr = InitialLR

\* one pass of the loop body: the batches, the history, the scheduler, the
\* best-loss tracker with its checkpoint, and the early-stopping break
Epoch ==
    /\ tpc = "running"
    /\ epoch < epochs
    /\ \E loss \in Losses :
         /\ Changes(Append(history, loss)) <= MaxChanges
         /\ LET s == SchedulerStep(loss, sched_best, num_bad_epochs, lr)
                better == Improved(loss, best_loss)
                c1 == IF better THEN 0 ELSE counter + 1
            IN  /\ epoch' = epoch + 1
                /\ params' = ThisRun(epoch + 1)
                /\ history' = Append(history, loss)
                /\ sched_best' = s[1]
                /\ num_bad_epochs' = s[2]
                /\ lr' = s[3]
                /\ best_loss' = IF better THEN loss ELSE best_loss
                /\ counter' = c1
                /\ ckptFile' = IF better THEN ThisRun(epoch + 1) ELSE ckptFile
                /\ tpc' = IF ~better /\ ShouldStop(c1) THEN "early_stopped" ELSE "running"
    /\ UNCHANGED <<epochs, table, dataRest, mainVars, fiVars>>

\* range(epochs) is exhausted
Exhaust ==
    /\ tpc = "running"
    /\ epoch = epochs
    /\ tpc' = "completed"
    /\ UNCHANGED <<trainLocalsButPc, modelVars, table, dataRest, mainVars, fiVars>>

\* what torch.load('best_model.pth') finds
LoadFinds(file) == file

\* model.load_state_dict(torch.load('best_model.pth')); return train_history
LoadBest ==
    /\ tpc \in {"early_stopped", "completed"}
    /\ LoadFinds(ckptFile) # Absent
    /\ params' = LoadFinds(ckptFile)
    /\ tpc' = "returned"
    /\ UNCHANGED <<trainLocalsButPc, ckptFile, table, dataRest, mainVars, fiVars>>

\* torch.load raises FileNotFoundError: no best_model.pth exists
LoadFails ==
    /\ tpc \in {"early_stopped", "completed"}
    /\ LoadFinds(ckptFile) = Absent
    /\ tpc' = "raised"
    /\ UNCHANGED <<trainLocalsButPc, modelVars, table, dataRest, mainVars, fiVars>>

TrainNext == Epoch \/ Exhaust \/ LoadBest \/ LoadFails

\* train_model has not been called
TrainIdle ==
    /\ tpc = "idle"
    /\ epochs = 0
    /\ epoch = 0
    /\ history = <<>>
    /\ best_loss = Inf
    /\ counter = 0
    /\ params = ThisRun(0)
    /\ ckptFile = Absent
    /\ sched_best = Inf
    /\ num_bad_epochs = 0
    /\ lr = InitialLR

----------------------------------------------------------------------------
(* load_and_preprocess_data, called with apply_smoothing=False *)

RECURSIVE SumSeq(_)
\* np.sum over a vector
SumSeq(x) == IF x = <<>> THEN 0 ELSE Head(x) + SumSeq(Tail(x))

\* the non-NaN entries of a vector, in order
RECURSIVE DropNaN(_)
DropNaN(x) ==
    IF x = <<>> THEN <<>>
    ELSE IF Head(x) = NaN THEN DropNaN(Tail(x))
    ELSE <<Head(x)>> \o DropNaN(Tail(x))

\* the vector of squares
Squares(x) == [j \in 1..Len(x) |-> x[j] * x[j]]

\* the square root of a perfect square (rounded down otherwise)
ISqrt(m) == CHOOSE r \in 0..m : r * r <= m /\ (r + 1) * (r + 1) > m

\* snv_transform on one spectrum: (x - mean) / std with the population std.
\* With W channels, mean = s/W and std = sqrt(W*q - s*s)/W, so the quotient is
\* (W*x - s) / sqrt(W*q - s*s); a zero std divides 0 by 0, which numpy returns
\* as NaN. With two channels the root is |x1 - x2| and the quotient is -1 or 1.
SnvRow(x) ==
    LET W  == Len(x)
        s  == SumSeq(x)
        d2 == W * SumSeq(Squares(x)) - s * s
    IN  [j \in 1..W |-> IF d2 = 0 THEN NaN ELSE (W * x[j] - s) \div ISqrt(d2)]

\* snv_transform: every spectrum by its own mean and std
snv_transform(spectra) == [i \in 1..Len(spectra) |-> SnvRow(spectra[i])]

\* StandardScaler.fit on one column: the statistics of its non-NaN entries
\* (mean_ = sum/cnt, var_ = sumsq/cnt - mean_^2)
FitScaler(col) ==
    LET part == DropNaN(col)
    IN  [cnt |-> Len(part), sum |-> SumSeq(part), sumsq |-> SumSeq(Squares(part))]

\* the standardized value NaN, as the quotient 0 / sqrt(0)
ZNaN == [num |-> 0, den2 |-> 0]

\* StandardScaler.transform on one value: (x - mean_) / scale_, kept exact as
\* num / sqrt(den2); scale_ is 1 for a column of zero variance; NaN stays NaN
Transform(sc, x) ==
    IF x = NaN \/ sc.cnt = 0 THEN ZNaN
    ELSE LET d2 == sc.cnt * sc.sumsq - sc.sum * sc.sum
         IN  [num  |-> sc.cnt * x - sc.sum,
              den2 |-> IF d2 = 0 THEN sc.cnt * sc.cnt ELSE d2]

\* faulty variant: test_size rounded down
NTest_Floor(n) == (3 * n) \div 10

\* train_test_split(test_size=0.3): n_test = ceil(0.3 * n)
NTest(n) == (3 * n + 9) \div 10

\* train_test_split: n_train = n - n_test
NTrain(n) == n - NTest(n)

\* ShuffleSplit: ind_test = permutation[:n_test]
IndTest(perm) == [i \in 1..NTest(Len(perm)) |-> perm[i]]

\* ShuffleSplit: ind_train = permutation[n_test:n_test + n_train]
IndTrain(perm) == [i \in 1..NTrain(Len(perm)) |-> perm[NTest(Len(perm)) + i]]

\* savgol_filter(window_length=7)
window_length == 7

\* faulty variant: the target columns are not looked up
LoadRaises_NoTargetCheck(tbl, apply_smoothing) ==
    IF tbl.status = "missing" THEN "FileNotFoundError"
    ELSE IF tbl.status = "unreadable" THEN "Exception"
    ELSE IF apply_smoothing /\ Len(tbl.spectra[1]) < window_length THEN "ValueError"
    ELSE "none"

\* the exception load_and_preprocess_data raises before any transform, or "none"
LoadRaises(tbl, apply_smoothing) ==
    IF tbl.status = "missing" THEN "FileNotFoundError"
    ELSE IF tbl.status = "unreadable" THEN "Exception"
    ELSE IF tbl.status = "no_targets" THEN "KeyError"
    ELSE IF apply_smoothing /\ Len(tbl.spectra[1]) < window_length THEN "ValueError"
    ELSE "none"

\* the value of a call that raised exc
Raised(exc) ==
    [raised |-> exc, scaler_spectra |-> <<>>, scaler_targets |-> FitScaler(<<>>),
     X_train |-> <<>>, X_test |-> <<>>, y_train |-> <<>>, y_test |-> <<>>,
     ind_train |-> <<>>, ind_test |-> <<>>]

\* no call made yet
NotRun == Raised("not_run")

\* load_and_preprocess_data(file_path, apply_smoothing=False, apply_snv=snv) on
\* the table tbl, perm being the permutation the split draws
LoadAndPreprocess(tbl, perm, snv) ==
    LET exc == LoadRaises(tbl, FALSE)
        n == Len(tbl.spectra)
        W == Len(tbl.spectra[1])
        spectra == IF snv THEN snv_transform(tbl.spectra) ELSE tbl.spectra
        scaler_spectra == [j \in 1..W |-> FitScaler([i \in 1..n |-> spectra[i][j]])]
        scaler_targets == FitScaler(tbl.targets)
        spectra_scaled ==
            [i \in 1..n |-> [j \in 1..W |-> Transform(scaler_spectra[j], spectra[i][j])]]
        targets_scaled == [i \in 1..n |-> Transform(scaler_targets, tbl.targets[i])]
        ind_train == IndTrain(perm)
        ind_test == IndTest(perm)
    IN  IF exc # "none" THEN Raised(exc)
        ELSE IF NTrain(n) = 0 THEN Raised("ValueError")
        ELSE [raised |-> "none",
              scaler_spectra |-> scaler_spectra,
              scaler_targets |-> scaler_targets,
              X_train |-> [i \in 1..Len(ind_train) |-> spectra_scaled[ind_train[i]]],
              X_test |-> [i \in 1..Len(ind_test) |-> spectra_scaled[ind_test[i]]],
              y_train |-> [i \in 1..Len(ind_train) |-> targets_scaled[ind_train[i]]],
              y_test |-> [i \in 1..Len(ind_test) |-> targets_scaled[ind_test[i]]],
              ind_train |-> ind_train,
              ind_test |-> ind_test]

\* the channel values and target values of the preprocessing runs
SpecVals == {1, 2}
TargetVals == {0, 1}

\* a readable table with all its columns
Table(spectra, targets) == [status |-> "ok", spectra |-> spectra, targets |-> targets]

\* the samples perm sends to the test partition
TestSamples(perm) == {perm[i] : i \in 1..NTest(Len(perm))}

\* tables a and b agree on every sample outside the set S
AgreeOutside(a, b, S) ==
    /\ a.status = b.status
    /\ \A i \in (1..Len(a.spectra)) \ S :
          a.spectra[i] = b.spectra[i] /\ a.targets[i] = b.targets[i]

\* two tables of the same size that differ at most in the samples of the test
\* partition, about to be preprocessed
DataInit ==
    /\ dpc = "ready"
    /\ apply_snv \in BOOLEAN
    /\ \E n \in 2..MaxSamples :
          /\ rng42 \in Permutations(1..n)
          /\ table \in {Table(sp, tg) : sp \in [1..n -> [1..Channels -> SpecVals]],
                                        tg \in [1..n -> TargetVals]}
          /\ table2 \in {Table(sp, tg) : sp \in [1..n -> [1..Channels -> SpecVals]],
                                         tg \in [1..n -> TargetVals]}
          /\ AgreeOutside(table, table2, TestSamples(rng42))
    /\ out = NotRun
    /\ out2 = NotRun

\* one table of every size, preprocessed twice
SplitInit ==
    /\ dpc = "ready"
    /\ apply_snv \in BOOLEAN
    /\ \E n \in 1..MaxN :
          /\ rng42 \in Permutations(1..n)
          /\ table = Table([i \in 1..n |-> <<i, i + 1>>], [i \in 1..n |-> i])
    /\ table2 = table
    /\ out = NotRun
    /\ out2 = NotRun

\* the first run of load_and_preprocess_data
Load1 ==
    /\ dpc = "ready"
    /\ out = NotRun
    /\ out' = LoadAndPreprocess(table, rng42, apply_snv)
    /\ UNCHANGED <<dpc, table, table2, rng42, apply_snv, out2>>
    /\ UNCHANGED <<trainLocals, modelVars, mainVars, fiVars>>

\* the second run of load_and_preprocess_data
Load2 ==
    /\ dpc = "ready"
    /\ out2 = NotRun
    /\ out2' = LoadAndPreprocess(table2, rng42, apply_snv)
    /\ UNCHANGED <<dpc, table, table2, rng42, apply_snv, out>>
    /\ UNCHANGED <<trainLocals, modelVars, mainVars, fiVars>>

DataNext == Load1 \/ Load2

\* load_and_preprocess_data is not under study
DataIdle ==
    /\ dpc = "idle"
    /\ table = Table(<<>>, <<>>)
    /\ table2 = Table(<<>>, <<>>)
    /\ rng42 = <<>>
    /\ apply_snv = TRUE
    /\ out = NotRun
    /\ out2 = NotRun

----------------------------------------------------------------------------
(* feature_importance_analysis *)

\* np.argsort(feature_importance)[-10:]
TopK == 10

\* the norms a single-channel perturbation can produce
Sensitivities == {0, 1, 2}

\* np.max over a vector
MaxOf(v) == CHOOSE m \in {v[i] : i \in 1..Len(v)} : \A i \in 1..Len(v) : v[i] <= m

\* feature_importance / np.max(feature_importance): each entry as the rational
\* num/den; with a maximum of 0 every entry is 0/0, which numpy returns as NaN
Normalize(v) == [i \in 1..Len(v) |-> [num |-> v[i], den |-> MaxOf(v)]]

\* the sort key of a normalized entry (the NaN entries compare as equal)
SortKey(z) == IF z.den = 0 THEN 0 ELSE z.num

\* the position of entry i in the ascending order, ties in index order
Rank(v, i) ==
    1 + Cardinality({j \in 1..Len(v) :
                        \/ SortKey(v[j]) < SortKey(v[i])
                        \/ SortKey(v[j]) = SortKey(v[i]) /\ j < i})

\* np.argsort
ArgSort(v) == [r \in 1..Len(v) |-> CHOOSE i \in 1..Len(v) : Rank(v, i) = r]

\* a[-k:]
LastK(a, k) == SubSeq(a, IF Len(a) > k THEN Len(a) - k + 1 ELSE 1, Len(a))

\* a fitted model in eval mode and the wavelength columns; the sensitivity
\* changes value at most MaxChanges times along the wavelength axis
ImportanceInit ==
    /\ fpc = "ready"
    /\ \E N \in 1..MaxWavelengths :
          /\ sensitivity \in [1..N -> Sensitivities]
          /\ Changes(sensitivity) <= MaxChanges
    /\ feature_importance = <<>>
    /\ top_indices = <<>>

\* feature_importance_analysis(model, spectra_columns, device)
Analyze ==
    /\ fpc = "ready"
    /\ feature_importance' = Normalize(sensitivity)
    /\ top_indices' = LastK(ArgSort(feature_importance'), TopK)
    /\ fpc' = "done"
    /\ UNCHANGED <<sensitivity, trainLocals, modelVars, table, dataRest, mainVars>>

ImportanceNext == Analyze

\* feature_importance_analysis is not under study
ImportanceIdle ==
    /\ fpc = "idle"
    /\ sensitivity = <<>>
    /\ feature_importance = <<>>
    /\ top_indices = <<>>

----------------------------------------------------------------------------
(* main *)

\* the keys save_predictions stores in stats for a component
StoredStatKeys == {"_MSE", "_R2", "_MAE"}

\* the keys its closing print loop reads ("_R^2" stands for the key spelt with
\* the superscript two)
PrintedStatKeys == {"_MSE", "_R^2", "_MAE"}

\* the closing print loop of save_predictions raises KeyError
SavePredictionsRaises == ~(PrintedStatKeys \subseteq StoredStatKeys)

\* the tables main can be given: every status, spectra too short for the
\* smoothing window or long enough
MainTables ==
    {[status |-> st, spectra |-> [i \in 1..2 |-> [j \in 1..W |-> i + j]],
      targets |-> <<1, 2>>] :
        st \in {"missing", "unreadable", "no_targets", "ok"},
        W \in {Channels, window_length}}

\* main is started
MainInit ==
    /\ mpc = "start"
    /\ table \in MainTables
    /\ results_dir \in BOOLEAN
    /\ ckptFile \in IF results_dir THEN {Absent, Stale} ELSE {Absent}
    /\ finalFile \in IF results_dir THEN {Absent, Stale} ELSE {Absent}
    /\ params = ThisRun(0)
    /\ model_built = FALSE
    /\ stepped = FALSE
    /\ written = {}
    /\ raised_in = "none"
    /\ exit_code = -1

\* except Exception as e: print(...); exit(1)
Handler(stage) ==
    /\ mpc' = "exited"
    /\ raised_in' = stage
    /\ exit_code' = 1

\* device, results directory, chdir
M_Setup ==
    /\ mpc = "start"
    /\ mpc' = "load"
    /\ results_dir' = TRUE
    /\ UNCHANGED <<model_built, stepped, written, finalFile, raised_in, exit_code>>
    /\ UNCHANGED <<trainLocals, modelVars, table, dataRest, fiVars>>

\* load_and_preprocess_data(file_path), smoothing and SNV on
M_Load ==
    /\ mpc = "load"
    /\ LET exc == LoadRaises(table, TRUE)
       IN  IF exc = "none"
           THEN /\ mpc' = "build"
                /\ written' = written \cup {"raw.png", "smoothed.png", "snv.png", "scaled.png"}
                /\ UNCHANGED <<raised_in, exit_code>>
           ELSE /\ Handler("load")
                /\ written' = IF exc = "ValueError" THEN written \cup {"raw.png"}
                              ELSE written
    /\ UNCHANGED <<results_dir, model_built, stepped, finalFile>>
    /\ UNCHANGED <<trainLocals, modelVars, table, dataRest, fiVars>>

\* EnhancedCNNModel(...), MSELoss, Adam, ReduceLROnPlateau
M_Build ==
    /\ mpc = "build"
    /\ mpc' = "train"
    /\ model_built' = TRUE
    /\ params' = ThisRun(0)
    /\ UNCHANGED <<results_dir, stepped, written, finalFile, raised_in, exit_code>>
    /\ UNCHANGED <<trainLocals, ckptFile, table, dataRest, fiVars>>

\* train_model(..., epochs=200, scheduler=scheduler), by its outcome: the last
\* epoch e that set a new best loss (e = 0 when none did); the checkpoint of
\* epoch e is written and loaded back, and with e = 0 the load finds whatever
\* best_model.pth the directory holds, or raises
M_Train ==
    /\ mpc = "train"
    /\ stepped' = TRUE
    /\ \E e \in 0..MaxBestEpoch :
          IF e > 0
          THEN /\ ckptFile' = ThisRun(e)
               /\ params' = LoadFinds(ThisRun(e))
               /\ written' = written \cup {"best_model.pth"}
               /\ mpc' = "evaluate"
               /\ UNCHANGED <<raised_in, exit_code>>
          ELSE IF LoadFinds(ckptFile) = Absent
          THEN /\ Handler("train")
               /\ UNCHANGED <<params, ckptFile, written>>
          ELSE /\ params' = LoadFinds(ckptFile)
               /\ mpc' = "evaluate"
               /\ UNCHANGED <<ckptFile, written, raised_in, exit_code>>
    /\ UNCHANGED <<results_dir, model_built, finalFile>>
    /\ UNCHANGED <<trainLocals, table, dataRest, fiVars>>

\* evaluate_model(...): model.eval(), forward passes under no_grad
M_Evaluate ==
    /\ mpc = "evaluate"
    /\ mpc' = "importance"
    /\ UNCHANGED <<results_dir, model_built, stepped, written, finalFile,
                   raised_in, exit_code>>
    /\ UNCHANGED <<trainLocals, modelVars, table, dataRest, fiVars>>

\* feature_importance_analysis(...): forward passes under no_grad, one plot
M_Importance ==
    /\ mpc = "importance"
    /\ mpc' = "visualize"
    /\ written' = written \cup {"feature_importance.png"}
    /\ UNCHANGED <<results_dir, model_built, stepped, finalFile, raised_in, exit_code>>
    /\ UNCHANGED <<trainLocals, modelVars, table, dataRest, fiVars>>

\* visualize_results(...): three plots
M_Visualize ==
    /\ mpc = "visualize"
    /\ mpc' = "save"
    /\ written' = written \cup {"prediction_results.png", "training_loss.png",
                                "prediction_error_distribution.png"}
    /\ UNCHANGED <<results_dir, model_built, stepped, finalFile, raised_in, exit_code>>
    /\ UNCHANGED <<trainLocals, modelVars, table, dataRest, fiVars>>

\* save_predictions(...), then torch.save(model.state_dict(),
\* 'nir_spectroscopy_model.pth') and the end of main
M_Save ==
    /\ mpc = "save"
    /\ IF SavePredictionsRaises
       THEN /\ Handler("save_predictions")
            /\ written' = written \cup {"predictions.csv"}
            /\ UNCHANGED finalFile
       ELSE /\ mpc' = "exited"
            /\ exit_code' = 0
            /\ finalFile' = params
            /\ written' = written \cup {"predictions.csv", "nir_spectroscopy_model.pth"}
            /\ UNCHANGED raised_in
    /\ UNCHANGED <<results_dir, model_built, stepped>>
    /\ UNCHANGED <<trainLocals, modelVars, table, dataRest, fiVars>>

MainNext ==
    M_Setup \/ M_Load \/ M_Build \/ M_Train \/ M_Evaluate \/ M_Importance
        \/ M_Visualize \/ M_Save

\* main is not under study
MainIdle ==
    /\ mpc = "idle"
    /\ results_dir = TRUE
    /\ model_built = FALSE
    /\ stepped = FALSE
    /\ written = {}
    /\ finalFile = Absent
    /\ raised_in = "none"
    /\ exit_code = -1

\* the variables of train_model that main's model leaves to SpecTrain
TrainLocalsIdle ==
    /\ tpc = "idle"
    /\ epochs = 0
    /\ epoch = 0
    /\ history = <<>>
    /\ best_loss = Inf
    /\ counter = 0
    /\ sched_best = Inf
    /\ num_bad_epochs = 0
    /\ lr = InitialLR

\* the variables of the preprocessing runs other than the table
DataRestIdle ==
    /\ dpc = "idle"
    /\ table2 = Table(<<>>, <<>>)
    /\ rng42 = <<>>
    /\ apply_snv = TRUE
    /\ out = NotRun
    /\ out2 = NotRun

----------------------------------------------------------------------------
(* Specifications *)

\* one call of train_model
InitTrain == TrainInit /\ DataIdle /\ MainIdle /\ ImportanceIdle
SpecTrain == InitTrain /\ [][TrainNext]_vars

\* two calls of load_and_preprocess_data on tables that differ in test samples
InitData == DataInit /\ TrainIdle /\ MainIdle /\ ImportanceIdle
SpecData == InitData /\ [][DataNext]_vars

\* two calls of load_and_preprocess_data on the same table
InitSplit == SplitInit /\ TrainIdle /\ MainIdle /\ ImportanceIdle
SpecSplit == InitSplit /\ [][DataNext]_vars

\* one run of main
InitMain == MainInit /\ TrainLocalsIdle /\ DataRestIdle /\ ImportanceIdle
SpecMain == InitMain /\ [][MainNext]_vars

\* one call of feature_importance_analysis
InitImportance == ImportanceInit /\ TrainIdle /\ DataIdle /\ MainIdle
SpecImportance == InitImportance /\ [][ImportanceNext]_vars

----------------------------------------------------------------------------
(* Claims about train_model, under SpecTrain *)

\* epoch k of h sets a new best loss: below +infinity and below every earlier loss
NewBestAt(h, k) ==
    /\ Lt(h[k], Inf)
    /\ \A j \in 1..(k - 1) : h[j] = NaN \/ h[k] < h[j]

\* no epoch of h after k is strictly lower than epoch k
NoLaterLower(h, k) == \A j \in (k + 1)..Len(h) : ~Lt(h[j], h[k])

\* epoch k of h holds a minimum of h
IsMinOf(h, k) == h[k] # NaN /\ \A j \in 1..Len(h) : ~Lt(h[j], h[k])

\* C1: when epoch k sets a new best loss, no later epoch is strictly lower and
\* k + 20 is within the epoch budget, the loop is still running before epoch
\* k + 20, halts by early stopping exactly at epoch k + 20, and the parameters
\* restored on return are the checkpoint taken at epoch k.
C1_EarlyStopAtKPlus20 ==
    \A k \in 1..Len(history) :
        (NewBestAt(history, k) /\ NoLaterLower(history, k) /\ k + 20 <= epochs)
        => /\ Len(history) <= k + 20
           /\ tpc = "running" => Len(history) < k + 20
           /\ tpc # "running" => /\ Len(history) = k + 20
                                 /\ tpc \in {"early_stopped", "returned"}
                                 /\ ckptFile = ThisRun(k)
           /\ tpc = "returned" => params = ThisRun(k)

\* C1 witness: a run that stalled after epoch k >= 2, was stopped at epoch k + 20
\* before its budget ran out, and returned with the checkpoint of epoch k.
C1_Witness ==
    /\ tpc = "returned"
    /\ Len(history) < epochs
    /\ \E k \in 2..Len(history) :
          /\ NewBestAt(history, k) /\ NoLaterLower(history, k)
          /\ Len(history) = k + 20
          /\ params = ThisRun(k)

\* C2 (as claimed): after every epoch best_loss is the minimum of the history
\* and the checkpoint file is this run's snapshot of the epoch that achieved it,
\* and on either exit the parameters loaded are that snapshot.
C2_BestCheckpointRestored ==
    /\ Len(history) >= 1 =>
          /\ ckptFile.writer = "this"
          /\ ckptFile.epoch \in 1..Len(history)
          /\ IsMinOf(history, ckptFile.epoch)
          /\ best_loss = history[ckptFile.epoch]
    /\ tpc = "returned" =>
          /\ params.writer = "this"
          /\ params.epoch \in 1..Len(history)
          /\ IsMinOf(history, params.epoch)

\* C3 (as claimed): when the loop has exited, a checkpoint written by this run
\* exists, so the post-loop load never succeeds on a file of an earlier run.
C3_CheckpointWrittenByThisRun ==
    tpc \in {"early_stopped", "completed", "returned"} => ckptFile.writer = "this"

\* loss a is below best by more than the relative threshold 1e-4
BelowThreshold(a, best) ==
    /\ a # NaN /\ a # Inf
    /\ best = Inf \/ 10000 * a < 9999 * best

\* C9 (amended): the scheduler counts consecutive epochs whose loss is not below
\* its best by the relative threshold 1e-4; the last num_bad_epochs epochs are
\* such epochs and the count never exceeds 10; the learning rate changes only
\* by halving, exactly at the 11th such epoch in a row (provided the halving
\* lowers it by more than 1e-8); and an improvement for the scheduler is an
\* improvement for the early-stopping tracker.
C9_HalvedOnEleventhBadEpoch ==
    /\ [](/\ num_bad_epochs <= 10
          /\ num_bad_epochs <= Len(history)
          /\ \A i \in (Len(history) - num_bad_epochs + 1)..Len(history) :
                 ~BelowThreshold(history[i], sched_best))
    /\ [][(tpc = "running" /\ epoch' = epoch + 1) =>
             /\ lr' # lr <=> (/\ num_bad_epochs = 10
                              /\ ~BelowThreshold(history'[epoch'], sched_best)
                              /\ lr.num * 100000000 > 2 * lr.den)
             /\ lr' # lr => (lr'.num = lr.num /\ lr'.den = 2 * lr.den)
             /\ BelowThreshold(history'[epoch'], sched_best)
                   => Lt(history'[epoch'], best_loss)]_vars

\* C9 witness: the rate has been halved once, and an epoch improved the
\* early-stopping best without improving the scheduler's best.
C9_Witness ==
    /\ lr = [num |-> 5, den |-> 20000]
    /\ Lt(best_loss, sched_best)
    /\ sched_best # Inf

\* C9 (as claimed): after 10 consecutive epochs without a new best loss the rate
\* has been halved, and the scheduler's best is the early-stopping best.
C9_HalvedOnTenthBadEpoch ==
    /\ counter >= 10 => lr # InitialLR
    /\ sched_best = best_loss

\* the outcomes of train_model that main's model of the call relies on: a return
\* leaves the live parameters equal to the checkpoint file, which is this run's
\* snapshot of an epoch that ran or else the file of an earlier run when no
\* epoch ever improved; a raise happens only without any file
TrainOutcomes ==
    /\ tpc = "returned" =>
          /\ params = ckptFile
          /\ \/ ckptFile.writer = "this" /\ ckptFile.epoch \in 1..epoch
             \/ ckptFile = Stale /\ \A i \in 1..Len(history) : ~Lt(history[i], Inf)
    /\ tpc = "raised" => ckptFile = Absent

----------------------------------------------------------------------------
(* Claims about load_and_preprocess_data, under SpecData and SpecSplit *)

\* two fitted scalers have the same mean and the same standard deviation
SameScaler(a, b) ==
    /\ (a.cnt = 0) <=> (b.cnt = 0)
    /\ a.sum * b.cnt = b.sum * a.cnt
    /\ (a.cnt * a.sumsq - a.sum * a.sum) * b.cnt * b.cnt
          = (b.cnt * b.sumsq - b.sum * b.sum) * a.cnt * a.cnt

\* two standardized values are the same number (or both NaN)
SameZ(a, b) ==
    IF a.den2 = 0 \/ b.den2 = 0 THEN a.den2 = b.den2
    ELSE /\ a.num * b.num >= 0
         /\ a.num * a.num * b.den2 = b.num * b.num * a.den2

\* the set of the entries of a sequence
AsSet(x) == {x[i] : i \in 1..Len(x)}

\* C4 (as claimed): two runs whose tables differ only in samples of the test
\* partition fit the same spectrum scaler and target scaler and produce the
\* same standardized training data.
C4_ScalersFitOnTrainOnly ==
    (out.raised = "none" /\ out2.raised = "none") =>
        /\ SameScaler(out.scaler_targets, out2.scaler_targets)
        /\ \A j \in 1..Len(out.scaler_spectra) :
              SameScaler(out.scaler_spectra[j], out2.scaler_spectra[j])
        /\ \A i \in 1..Len(out.y_train) : SameZ(out.y_train[i], out2.y_train[i])
        /\ \A i \in 1..Len(out.X_train) : \A j \in 1..Len(out.X_train[i]) :
              SameZ(out.X_train[i][j], out2.X_train[i][j])

C7_NoDivisionByZeroPassedOn ==
    out.raised = "none" =>
        \A i \in 1..Len(table.spectra) : \A j \in 1..Len(table.spectra[i]) :
            /\ i \in AsSet(out.ind_train) =>
                  \A r \in 1..Len(out.X_train) :
                      out.ind_train[r] = i => out.X_train[r][j] # ZNaN
            /\ i \in AsSet(out.ind_test) =>
                  \A r \in 1..Len(out.X_test) :
                      out.ind_test[r] = i => out.X_test[r][j] # ZNaN

----------------------------------------------------------------------------
(* Claims about main, under SpecMain *)

\* C6: with a missing or unreadable table, or a missing target column, main
\* never constructs the model, never steps the optimizer and never writes a
\* checkpoint; it goes from the load straight to its handler and exits with
\* status 1, the load being the call that raised.
C6_FatalInputAbortsBeforeTraining ==
    table.status # "ok" =>
        /\ ~model_built
        /\ ~stepped
        /\ "best_model.pth" \notin written
        /\ "nir_spectroscopy_model.pth" \notin written
        /\ mpc \in {"start", "load", "exited"}
        /\ mpc = "exited" => (exit_code = 1 /\ raised_in = "load")

\* C6 witness: main has exited on a table without its target columns.
C6_Witness ==
    /\ table.status = "no_targets"
    /\ mpc = "exited"
    /\ exit_code = 1

\* C8 (as claimed): a run in which loading, training and evaluation raise
\* nothing ends normally with the model saved under the final name, the saved
\* parameters being those train_model restored.
C8_FinalModelSaved ==
    (mpc = "exited" /\ raised_in \notin {"load", "train", "evaluate"}) =>
        /\ exit_code = 0
        /\ "nir_spectroscopy_model.pth" \in written
        /\ finalFile = params

----------------------------------------------------------------------------
(* Claims about feature_importance_analysis, under SpecImportance *)

\* C10 (as claimed): the importance vector has one entry per channel, every
\* entry lies in [0, 1], its maximum is 1, and the 10 channels of largest
\* importance are returned (all of them when there are fewer than 10).
C10_ImportanceNormalized ==
    fpc = "done" =>
        /\ Len(feature_importance) = Len(sensitivity)
        /\ \A i \in 1..Len(feature_importance) :
              /\ feature_importance[i].den > 0
              /\ 0 <= feature_importance[i].num
              /\ feature_importance[i].num <= feature_importance[i].den
        /\ \E i \in 1..Len(feature_importance) :
              feature_importance[i].num = feature_importance[i].den
        /\ Len(top_indices) = IF Len(sensitivity) < 10 THEN Len(sensitivity) ELSE 10

====
